---- MODULE Spec2Model ----
(***************************************************************************)
(* A model of revert_to_deadline.py: the deadline computation              *)
(* (parse_date_central), the branch selector (detect_branch), the cutoff   *)
(* commit lookup (commit_before, i.e. `git rev-list -1 --before=TS`), the  *)
(* dirty guard (is_dirty) and the batch driver (main).                     *)
(*                                                                         *)
(* Text is a sequence of one-character strings.  Instants are seconds      *)
(* since 1970-01-01T00:00:00Z.  A datetime is the record of wall-clock     *)
(* fields Python keeps for an aware datetime whose tzinfo is               *)
(* America/Chicago (fold = 0).                                             *)
(***************************************************************************)
EXTENDS Integers, Sequences, FiniteSets, TLC

(***************************************************************************)
(* Bounds of the model.                                                    *)
(***************************************************************************)
\* entries of the root directory
MaxEntries == 2
\* commits on one branch in the cutoff-lookup specification
MaxLog == 3

(***************************************************************************)
(* Text helpers.                                                           *)
(***************************************************************************)
Digits == <<"0", "1", "2", "3", "4", "5", "6", "7", "8", "9">>

IsDigit(c) == \E k \in 1..10 : Digits[k] = c

DigitVal(c) == (CHOOSE k \in 1..10 : Digits[k] = c) - 1

IsSpace(c) == c \in {" ", "\t", "\n"}

RECURSIVE LStrip(_)
LStrip(s) == IF s # <<>> /\ IsSpace(Head(s)) THEN LStrip(Tail(s)) ELSE s

RECURSIVE RStrip(_)
RStrip(s) ==
    IF s # <<>> /\ IsSpace(s[Len(s)]) THEN RStrip(SubSeq(s, 1, Len(s) - 1)) ELSE s

\* str.strip()
Strip(s) == RStrip(LStrip(s))

\* the fields of s between occurrences of the separator
RECURSIVE Split(_, _, _)
Split(s, sep, cur) ==
    IF s = <<>> THEN <<cur>>
    ELSE IF Head(s) = sep THEN <<cur>> \o Split(Tail(s), sep, <<>>)
    ELSE Split(Tail(s), sep, Append(cur, Head(s)))

AllDigits(f) == \A k \in 1..Len(f) : IsDigit(f[k])

\* int() of a digit string
RECURSIVE ToInt(_)
ToInt(f) ==
    IF f = <<>> THEN 0 ELSE 10 * ToInt(SubSeq(f, 1, Len(f) - 1)) + DigitVal(f[Len(f)])

\* the fields of s when it is digit groups of the given length ranges joined by sep
Groups(s, sep, lo, hi) ==
    LET f == Split(s, sep, <<>>)
    IN  IF /\ Len(f) = 3
           /\ \A k \in 1..3 : AllDigits(f[k]) /\ Len(f[k]) >= lo[k] /\ Len(f[k]) <= hi[k]
        THEN <<ToInt(f[1]), ToInt(f[2]), ToInt(f[3])>>
        ELSE <<>>

\* re.fullmatch(r"(\d{1,2})/(\d{1,2})/(\d{4})", s)
MatchMDY(s) == Groups(s, "/", <<1, 1, 4>>, <<2, 2, 4>>)

\* re.fullmatch(r"(\d{4})-(\d{1,2})-(\d{1,2})", s)
MatchYMD(s) == Groups(s, "-", <<4, 1, 1>>, <<4, 2, 2>>)

(***************************************************************************)
(* Civil time.                                                             *)
(***************************************************************************)
IsLeap(y) == (y % 4 = 0 /\ y % 100 # 0) \/ y % 400 = 0

DaysInMonth(y, m) ==
    IF m = 2 THEN (IF IsLeap(y) THEN 29 ELSE 28)
    ELSE IF m \in {4, 6, 9, 11} THEN 30 ELSE 31

\* dt.date(y, m, d) raises ValueError unless this holds
ValidDate(y, m, d) ==
    /\ y >= 1 /\ y <= 9999
    /\ m >= 1 /\ m <= 12
    /\ d >= 1 /\ d <= DaysInMonth(y, m)

\* days from 1970-01-01 to the civil date (proleptic Gregorian)
DaysFromCivil(y, m, d) ==
    LET yy  == IF m <= 2 THEN y - 1 ELSE y
        era == yy \div 400
        yoe == yy - era * 400
        mp  == IF m > 2 THEN m - 3 ELSE m + 9
        doy == (153 * mp + 2) \div 5 + d - 1
        doe == yoe * 365 + yoe \div 4 - yoe \div 100 + doy
    IN  era * 146097 + doe - 719468

\* the civil date of a day count
CivilFromDays(z) ==
    LET zz  == z + 719468
        era == zz \div 146097
        doe == zz - era * 146097
        yoe == (doe - doe \div 1460 + doe \div 36524 - doe \div 146096) \div 365
        doy == doe - (365 * yoe + yoe \div 4 - yoe \div 100)
        mp  == (5 * doy + 2) \div 153
        d   == doy - (153 * mp + 2) \div 5 + 1
        m   == IF mp < 10 THEN mp + 3 ELSE mp - 9
        y   == yoe + era * 400 + (IF m <= 2 THEN 1 ELSE 0)
    IN  <<y, m, d>>

\* dt.datetime(y, m, d, hh, mi, tzinfo=CENTRAL_TZ)
DateTime(y, m, d, hh, mi) ==
    [year |-> y, month |-> m, day |-> d, hour |-> hh, minute |-> mi, second |-> 0]

\* minutes of wall-clock time since 1970-01-01 00:00 on the local calendar
WallMinutes(t) == DaysFromCivil(t.year, t.month, t.day) * 1440 + t.hour * 60 + t.minute

FromWallMinutes(w) ==
    LET c == CivilFromDays(w \div 1440)
        r == w % 1440
    IN  [year |-> c[1], month |-> c[2], day |-> c[3],
         hour |-> r \div 60, minute |-> r % 60, second |-> 0]

\* aware datetime + timedelta(minutes=n): Python adds on the wall-clock fields and
\* keeps the tzinfo; the UTC offset is looked up again from the new fields
AddMinutes(t, n) == FromWallMinutes(WallMinutes(t) + n)

\* the day count of the k-th Sunday of month m in year y
NthSunday(y, m, k) ==
    LET d0 == DaysFromCivil(y, m, 1)
        wd == (d0 + 4) % 7
    IN  d0 + ((7 - wd) % 7) + 7 * (k - 1)

\* America/Chicago (US rule in force since 2007): daylight time from the second
\* Sunday of March 02:00 to the first Sunday of November 02:00.  With fold = 0 a
\* wall time in the spring gap takes the offset before the jump and a repeated wall
\* time in autumn takes the first (daylight) reading.
IsDaylight(t) ==
    LET w == WallMinutes(t)
    IN  /\ w >= NthSunday(t.year, 3, 2) * 1440 + 180
        /\ w <  NthSunday(t.year, 11, 1) * 1440 + 120

\* d.utcoffset() in minutes
UtcOffset(t) == IF IsDaylight(t) THEN -300 ELSE -360

\* the absolute instant of an aware datetime, in seconds since the epoch
Instant(t) == (WallMinutes(t) - UtcOffset(t)) * 60 + t.second

(***************************************************************************)
(* The deadline.                                                           *)
(***************************************************************************)
\* parse_date_central(date_str, grace_minutes): the adjusted deadline, or the
\* exception that ends the run
ParseDateCentral(date_str, grace_minutes) ==
    LET s   == Strip(date_str)
        mdy == MatchMDY(s)
        ymd == MatchYMD(s)
        y   == IF mdy # <<>> THEN mdy[3] ELSE ymd[1]
        m   == IF mdy # <<>> THEN mdy[1] ELSE ymd[2]
        d   == IF mdy # <<>> THEN mdy[2] ELSE ymd[3]
    IN  IF mdy = <<>> /\ ymd = <<>> THEN [raised |-> "SystemExit"]
        ELSE IF ~ValidDate(y, m, d) THEN [raised |-> "ValueError"]
        ELSE [raised |-> "none",
              value  |-> AddMinutes(DateTime(y, m, d, 23, 59), grace_minutes)]

Abs(n) == IF n >= 0 THEN n ELSE -n

\* the text commit_before builds for --before: "%Y-%m-%d %H:%M:%S" and " +HHMM",
\* kept as its fields
FormatForQuery(deadline) ==
    LET offset        == UtcOffset(deadline)
        total_minutes == Abs(offset)
    IN  [year |-> deadline.year, month |-> deadline.month, day |-> deadline.day,
         hour |-> deadline.hour, minute |-> deadline.minute, second |-> deadline.second,
         sign |-> IF offset >= 0 THEN "+" ELSE "-",
         hours |-> total_minutes \div 60, minutes |-> total_minutes % 60]

\* git's reading of a "YYYY-MM-DD HH:MM:SS +HHMM" date: the instant it names
GitParseDate(ts) ==
    LET off == (IF ts.sign = "+" THEN 1 ELSE -1) * (ts.hours * 60 + ts.minutes)
    IN  (DaysFromCivil(ts.year, ts.month, ts.day) * 1440
            + ts.hour * 60 + ts.minute - off) * 60 + ts.second

(***************************************************************************)
(* A repository.  logs[b] is the first-parent history of local branch b,   *)
(* oldest commit first, each commit given by its committer instant; a      *)
(* branch with no commit does not exist.  head is the branch HEAD points   *)
(* to (unborn when that branch has no commit) or Detached, and then        *)
(* detachedLog is the history of the commit HEAD is at.  originHead is the *)
(* short name refs/remotes/origin/HEAD resolves to, as <<remote, branch>>, *)
(* or NoRef.  A commit is named by its position in the history.            *)
(***************************************************************************)
BranchNames == {"main", "master", "dev"}

Detached == "(detached)"

NoRef == <<>>

\* no commit found
None == 0

\* the history that a revision name resolves to, <<>> when it does not resolve
History(r, rev) ==
    IF rev = "HEAD" THEN (IF r.head = Detached THEN r.detachedLog ELSE r.logs[r.head])
    ELSE IF rev \in BranchNames THEN r.logs[rev]
    ELSE <<>>

\* git rev-parse --abbrev-ref HEAD
GitRevParseAbbrevRefHead(r) ==
    IF r.head = Detached THEN [returncode |-> 0, stdout |-> "HEAD"]
    ELSE IF r.logs[r.head] = <<>> THEN [returncode |-> 128, stdout |-> "HEAD"]
    ELSE [returncode |-> 0, stdout |-> r.head]

\* git symbolic-ref --short refs/remotes/origin/HEAD
GitSymbolicRefOriginHead(r) ==
    IF r.originHead = NoRef THEN [returncode |-> 128, stdout |-> NoRef]
    ELSE [returncode |-> 0, stdout |-> r.originHead]

\* git show-ref refs/heads/<cand>
GitShowRef(r, cand) ==
    [returncode |-> IF r.logs[cand] # <<>> THEN 0 ELSE 1]

\* the walk of git rev-list -1 --before=<cutoff> over a linear history, newest
\* commit first: a commit newer than the cutoff is passed over, and the walk
\* stops at the first commit whose committer date is not after the cutoff
RECURSIVE RevListWalk(_, _)
RevListWalk(log, cutoff) ==
    IF log = <<>> THEN None
    ELSE IF log[Len(log)] <= cutoff THEN Len(log)
    ELSE RevListWalk(SubSeq(log, 1, Len(log) - 1), cutoff)

\* git rev-list -1 --before=<ts> <branch>
GitRevListBefore(r, ts, branch) ==
    IF History(r, branch) = <<>> THEN [returncode |-> 128, stdout |-> None]
    ELSE [returncode |-> 0, stdout |-> RevListWalk(History(r, branch), GitParseDate(ts))]

\* detect_branch with the candidates tried as ("master", "main")
DetectBranchMasterFirst(r) ==
    LET cur == GitRevParseAbbrevRefHead(r)
        org == GitSymbolicRefOriginHead(r)
    IN  IF cur.returncode = 0 /\ cur.stdout # "HEAD" THEN cur.stdout
        ELSE IF org.returncode = 0 /\ org.stdout[1] = "origin" THEN org.stdout[2]
        ELSE IF GitShowRef(r, "master").returncode = 0 THEN "master"
        ELSE IF GitShowRef(r, "main").returncode = 0 THEN "main"
        ELSE "HEAD"

\* detect_branch(repo)
DetectBranch(r) ==
    LET cur == GitRevParseAbbrevRefHead(r)
        org == GitSymbolicRefOriginHead(r)
    IN  IF cur.returncode = 0 /\ cur.stdout # "HEAD" THEN cur.stdout
        ELSE IF org.returncode = 0 /\ org.stdout[1] = "origin" THEN org.stdout[2]
        ELSE IF GitShowRef(r, "main").returncode = 0 THEN "main"
        ELSE IF GitShowRef(r, "master").returncode = 0 THEN "master"
        ELSE "HEAD"

\* commit_before(repo, branch, deadline)
CommitBefore(r, branch, deadline) ==
    LET cp == GitRevListBefore(r, FormatForQuery(deadline), branch)
    IN  IF cp.returncode # 0 THEN None ELSE cp.stdout

\* whether git status --porcelain has anything to print: a tracked file that is
\* modified, staged or deleted, or an untracked file
TreeDirty(r) == r.dirty \/ r.untracked

\* is_dirty that takes a failed status query for a dirty tree
IsDirtyFailClosed(r, status_ok) == ~status_ok \/ TreeDirty(r)

\* is_dirty(repo), given whether the status query succeeded
IsDirty(r, status_ok) == status_ok /\ TreeDirty(r)

\* the git queries detect_branch issues, in order, each with its success
DetectBranchCalls(r) ==
    LET cur == GitRevParseAbbrevRefHead(r)
        org == GitSymbolicRefOriginHead(r)
        q1  == <<[cmd |-> "rev-parse", ok |-> cur.returncode = 0]>>
        q2  == <<[cmd |-> "symbolic-ref", ok |-> org.returncode = 0]>>
        q3  == <<[cmd |-> "show-ref", ok |-> GitShowRef(r, "main").returncode = 0]>>
        q4  == <<[cmd |-> "show-ref", ok |-> GitShowRef(r, "master").returncode = 0]>>
    IN  IF cur.returncode = 0 /\ cur.stdout # "HEAD" THEN q1
        ELSE IF org.returncode = 0 /\ org.stdout[1] = "origin" THEN q1 \o q2
        ELSE IF GitShowRef(r, "main").returncode = 0 THEN q1 \o q2 \o q3
        ELSE q1 \o q2 \o q3 \o q4

\* the repository after a successful git checkout -q <branch>
AfterCheckout(r, branch) == [r EXCEPT !.head = branch, !.detachedLog = <<>>]

\* the repository after a successful git reset --hard <commit>: HEAD (the current
\* branch, or the detached HEAD) is moved to the commit and the tracked files and
\* the index are made equal to it; untracked files stay
AfterHardReset(r, commit) ==
    IF r.head = Detached
    THEN [r EXCEPT !.detachedLog = SubSeq(r.detachedLog, 1, commit), !.dirty = FALSE]
    ELSE [r EXCEPT !.logs[r.head] = SubSeq(r.logs[r.head], 1, commit), !.dirty = FALSE]

(***************************************************************************)
(* Inputs of the batch driver.                                             *)
(***************************************************************************)
DateMDY   == <<"0", "9", "/", "1", "0", "/", "2", "0", "2", "5">>
DateYMD   == <<" ", "2", "0", "2", "5", "-", "9", "-", "1", "0">>
DateSlashYMD == <<"2", "0", "2", "5", "/", "0", "9", "/", "1", "0">>
DateShortYear == <<"0", "9", "/", "1", "0", "/", "2", "5">>
DateFeb30 == <<"0", "2", "/", "3", "0", "/", "2", "0", "2", "5">>

DateStrings == {DateMDY, DateYMD, DateSlashYMD, DateShortYear, DateFeb30}

\* --grace: none, and the default; the batch runs use the default
GraceValues == {0, 5}
RunGraceValues == {5}

\* committer instants around the deadline of 09/10/2025
T2310 == GitParseDate([year |-> 2025, month |-> 9, day |-> 10, hour |-> 23, minute |-> 10,
                       second |-> 0, sign |-> "-", hours |-> 5, minutes |-> 0])
T0004 == GitParseDate([year |-> 2025, month |-> 9, day |-> 11, hour |-> 0, minute |-> 4,
                       second |-> 0, sign |-> "-", hours |-> 5, minutes |-> 0])
T0010 == GitParseDate([year |-> 2025, month |-> 9, day |-> 11, hour |-> 0, minute |-> 10,
                       second |-> 0, sign |-> "-", hours |-> 5, minutes |-> 0])

NoLogs == [b \in BranchNames |-> <<>>]

\* the shapes of repository the root directory may hold: on main with a commit
\* before and one after the deadline; on dev, whose only commit is after it, with an
\* origin pointer; detached with no branch at all and a commit in the very second of
\* the default deadline; detached with an origin pointer to master
OnMain ==
    [head |-> "main", originHead |-> NoRef, detachedLog |-> <<>>,
     logs |-> [NoLogs EXCEPT !["main"] = <<T2310, T0010>>]]
OnDev ==
    [head |-> "dev", originHead |-> <<"origin", "main">>, detachedLog |-> <<>>,
     logs |-> [NoLogs EXCEPT !["dev"] = <<T0010>>, !["main"] = <<T2310>>]]
DetachedBare ==
    [head |-> Detached, originHead |-> NoRef, detachedLog |-> <<T2310, T0004>>,
     logs |-> NoLogs]
DetachedWithOrigin ==
    [head |-> Detached, originHead |-> <<"origin", "master">>, detachedLog |-> <<T2310>>,
     logs |-> [NoLogs EXCEPT !["master"] = <<T2310, T0010>>]]

WithTree(sh, d) ==
    [dirty |-> d, untracked |-> FALSE, head |-> sh.head, originHead |-> sh.originHead,
     logs |-> sh.logs, detachedLog |-> sh.detachedLog]

\* the repositories the root directory may hold
RepoSamples ==
    {WithTree(sh, FALSE) : sh \in {OnMain, OnDev, DetachedBare, DetachedWithOrigin}}
        \cup {WithTree(sh, TRUE) : sh \in {OnMain, DetachedBare}}

\* an entry of the root directory: a file, a directory without .git, a repository
Entries ==
    {[kind |-> "file"], [kind |-> "dir"]} \cup {[kind |-> "repo", git |-> r] : r \in RepoSamples}

(***************************************************************************)
(* The batch driver, main().                                               *)
(***************************************************************************)
VARIABLES
    pc,         \* the position in main()
    git_on_path,    \* whether shutil.which("git") finds git
    root_is_dir,    \* whether --dir names a directory
    date_str, grace, dry_run, force,     \* args
    deadline,   \* the adjusted deadline
    fs,         \* the entries of the root directory, in the order of their names
    fs0,        \* fs as it was when the directory was listed
    repos,      \* sorted(repos): the positions in fs of the repositories
    i,          \* the position in repos of the repository in hand
    branch, sha,
    ok, skipped, failed,
    outcome,    \* the outcome of each repository handled so far, in order
    calls,      \* the git commands run on each entry, in order
    exit,       \* the exit code of the process, -1 while it runs
    raised,     \* the exception that ended the run
    fnArg, fnRes,   \* argument and result of a function applied on its own
    prior       \* what an earlier run over the same root left, for a second run

vars == <<pc, git_on_path, root_is_dir, date_str, grace, dry_run, force, deadline, fs, fs0, repos, i, branch, sha,
          ok, skipped, failed, outcome, calls, exit, raised, fnArg, fnRes, prior>>

args == <<git_on_path, root_is_dir, date_str, grace, dry_run, force>>

NoDeadline == [raised |-> "unset"]

\* no earlier run
FirstRun == [run |-> 1]

Init ==
    /\ pc = "start"
    /\ git_on_path \in BOOLEAN
    /\ root_is_dir \in BOOLEAN
    /\ date_str \in DateStrings
    /\ grace \in RunGraceValues
    /\ dry_run \in BOOLEAN
    /\ force \in BOOLEAN
    /\ deadline = NoDeadline
    /\ fs = <<>> /\ fs0 = <<>> /\ repos = <<>>
    /\ i = 0
    /\ branch = "" /\ sha = None
    /\ ok = 0 /\ skipped = 0 /\ failed = 0
    /\ outcome = <<>>
    /\ calls = <<>>
    /\ exit = -1
    /\ raised = "none"
    /\ fnArg = <<>> /\ fnRes = <<>>
    /\ prior = FirstRun

\* [p for p in root.iterdir() if p.is_dir() and repo_is_git(p)], sorted
RECURSIVE SortedRepos(_, _)
SortedRepos(listing, k) ==
    IF k > Len(listing) THEN <<>>
    ELSE (IF listing[k].kind = "repo" THEN <<k>> ELSE <<>>) \o SortedRepos(listing, k + 1)

\* the repository in hand
cur == repos[i]
git == fs[cur].git

Log(entries) == [calls EXCEPT ![cur] = @ \o entries]

\* `continue`, or the end of the loop body: the next repository, or the summary
Continue ==
    IF i < Len(repos) THEN pc' = "dirty" /\ i' = i + 1
    ELSE pc' = "summary" /\ i' = i

\* main, line 197, and ensure_git: without git the run ends with exit code 1
EnsureGit ==
    /\ pc = "start"
    /\ IF git_on_path
       THEN pc' = "root" /\ UNCHANGED exit
       ELSE pc' = "done" /\ exit' = 1
    /\ UNCHANGED <<args, prior, deadline, fs, fs0, repos, i, branch, sha, ok, skipped, failed,
                   outcome, calls, raised, fnArg, fnRes>>

\* main, lines 199-202: the root is not a directory
RootNotDir ==
    /\ pc = "root"
    /\ ~root_is_dir
    /\ pc' = "done" /\ exit' = 2
    /\ UNCHANGED <<args, prior, deadline, fs, fs0, repos, i, branch, sha, ok, skipped, failed,
                   outcome, calls, raised, fnArg, fnRes>>

\* main, lines 199-202: the root is a directory
RootIsDir ==
    /\ pc = "root"
    /\ root_is_dir
    /\ pc' = "parse"
    /\ UNCHANGED <<args, prior, deadline, fs, fs0, repos, i, branch, sha, ok, skipped, failed,
                   outcome, calls, exit, raised, fnArg, fnRes>>

\* main, lines 204-205, with a rejected date replaced by a default instead of ending
\* the run
ResolveDeadlineLenient ==
    /\ pc = "parse"
    /\ LET p == ParseDateCentral(date_str, grace)
       IN  /\ pc' = "enumerate"
           /\ deadline' = IF p.raised # "none" THEN ParseDateCentral(DateMDY, grace).value
                           ELSE p.value
           /\ UNCHANGED <<raised, exit>>
    /\ UNCHANGED <<args, prior, fs, fs0, repos, i, branch, sha, ok, skipped, failed,
                   outcome, calls, fnArg, fnRes>>

\* main, lines 204-205
ResolveDeadline ==
    /\ pc = "parse"
    /\ LET p == ParseDateCentral(date_str, grace)
       IN  IF p.raised # "none"
           THEN /\ pc' = "done" /\ raised' = p.raised /\ exit' = 1
                /\ UNCHANGED deadline
           ELSE /\ pc' = "enumerate" /\ deadline' = p.value
                /\ UNCHANGED <<raised, exit>>
    /\ UNCHANGED <<args, prior, fs, fs0, repos, i, branch, sha, ok, skipped, failed,
                   outcome, calls, fnArg, fnRes>>

\* main, lines 207-215, with an empty list of repositories ending the run as a failure
EnumerateEmptyFails ==
    /\ pc = "enumerate"
    /\ \E n \in 0..MaxEntries : \E listing \in [1..n -> Entries] :
        /\ fs' = listing /\ fs0' = listing
        /\ repos' = SortedRepos(listing, 1)
        /\ calls' = [k \in 1..n |-> <<>>]
        /\ IF repos' = <<>>
           THEN pc' = "done" /\ exit' = 1 /\ i' = i
           ELSE pc' = "dirty" /\ exit' = exit /\ i' = 1
    /\ UNCHANGED <<args, prior, deadline, branch, sha, ok, skipped, failed, outcome, raised,
                   fnArg, fnRes>>

\* main, lines 207-215: the root directory is listed
Enumerate ==
    /\ pc = "enumerate"
    /\ \E n \in 0..MaxEntries : \E listing \in [1..n -> Entries] :
        /\ fs' = listing /\ fs0' = listing
        /\ repos' = SortedRepos(listing, 1)
        /\ calls' = [k \in 1..n |-> <<>>]
        /\ IF repos' = <<>>
           THEN pc' = "done" /\ exit' = 0 /\ i' = i
           ELSE pc' = "dirty" /\ exit' = exit /\ i' = 1
    /\ UNCHANGED <<args, prior, deadline, branch, sha, ok, skipped, failed, outcome, raised,
                   fnArg, fnRes>>

\* main, lines 220-223: the dirty guard; the status query may fail
DirtyGuard ==
    /\ pc = "dirty"
    /\ \E status_ok \in BOOLEAN :
        /\ calls' = Log(<<[cmd |-> "status", ok |-> status_ok]>>)
        /\ IF IsDirty(git, status_ok) /\ ~force
           THEN /\ skipped' = skipped + 1
                /\ outcome' = Append(outcome, "Skipped-Dirty")
                /\ Continue
           ELSE /\ pc' = "lookup"
                /\ UNCHANGED <<skipped, outcome, i>>
    /\ UNCHANGED <<args, prior, deadline, fs, fs0, repos, branch, sha, ok, failed, exit, raised,
                   fnArg, fnRes>>

\* main, lines 225-230
Lookup ==
    /\ pc = "lookup"
    /\ branch' = DetectBranch(git)
    /\ sha' = CommitBefore(git, branch', deadline)
    /\ calls' = Log(DetectBranchCalls(git) \o
            <<[cmd |-> "rev-list",
               ok  |-> GitRevListBefore(git, FormatForQuery(deadline), branch').returncode = 0]>>)
    /\ IF sha' = None
       THEN /\ skipped' = skipped + 1
            /\ outcome' = Append(outcome, "Skipped-NoQualifyingCommit")
            /\ Continue
       ELSE /\ pc' = "report"
            /\ UNCHANGED <<skipped, outcome, i>>
    /\ UNCHANGED <<args, prior, deadline, fs, fs0, repos, ok, failed, exit, raised, fnArg, fnRes>>

\* main, lines 232-244, with the dry-run branch lacking its `continue`
ReportFallsThrough ==
    /\ pc = "report"
    /\ calls' = Log(<<[cmd |-> "show", ok |-> TRUE], [cmd |-> "show", ok |-> TRUE]>>)
    /\ IF dry_run
       THEN /\ ok' = ok + 1
            /\ outcome' = Append(outcome, "Skipped-DryRun")
            /\ pc' = "checkout"
            /\ UNCHANGED i
       ELSE /\ pc' = "checkout"
            /\ UNCHANGED <<ok, outcome, i>>
    /\ UNCHANGED <<args, prior, deadline, fs, fs0, repos, branch, sha, skipped, failed, exit,
                   raised, fnArg, fnRes>>

\* main, lines 232-244, with a dry run tallied under skipped
ReportCountsSkipped ==
    /\ pc = "report"
    /\ calls' = Log(<<[cmd |-> "show", ok |-> TRUE], [cmd |-> "show", ok |-> TRUE]>>)
    /\ IF dry_run
       THEN /\ skipped' = skipped + 1
            /\ outcome' = Append(outcome, "Skipped-DryRun")
            /\ Continue
       ELSE /\ pc' = "checkout"
            /\ UNCHANGED <<skipped, outcome, i>>
    /\ UNCHANGED <<args, prior, deadline, fs, fs0, repos, branch, sha, ok, failed, exit,
                   raised, fnArg, fnRes>>

\* main, lines 232-244
Report ==
    /\ pc = "report"
    /\ calls' = Log(<<[cmd |-> "show", ok |-> TRUE], [cmd |-> "show", ok |-> TRUE]>>)
    /\ IF dry_run
       THEN /\ ok' = ok + 1
            /\ outcome' = Append(outcome, "Skipped-DryRun")
            /\ Continue
       ELSE /\ pc' = "checkout"
            /\ UNCHANGED <<ok, outcome, i>>
    /\ UNCHANGED <<args, prior, deadline, fs, fs0, repos, branch, sha, skipped, failed, exit,
                   raised, fnArg, fnRes>>

\* main, lines 246-251, with a failed checkout leaving the loop (`break`)
CheckoutFailureBreaks ==
    /\ pc = "checkout"
    /\ branch # "HEAD"
    /\ \E success \in BOOLEAN :
        /\ calls' = Log(<<[cmd |-> "checkout", ok |-> success]>>)
        /\ IF success
           THEN /\ fs' = [fs EXCEPT ![cur].git = AfterCheckout(@, branch)]
                /\ pc' = "reset"
                /\ UNCHANGED <<failed, outcome, i>>
           ELSE /\ failed' = failed + 1
                /\ outcome' = Append(outcome, "Failed-Checkout")
                /\ pc' = "summary"
                /\ UNCHANGED <<fs, i>>
    /\ UNCHANGED <<args, prior, deadline, fs0, repos, branch, sha, ok, skipped, exit, raised,
                   fnArg, fnRes>>

\* main, lines 246-251, with the result of checkout_branch not looked at
CheckoutFailureIgnored ==
    /\ pc = "checkout"
    /\ branch # "HEAD"
    /\ \E success \in BOOLEAN :
        /\ calls' = Log(<<[cmd |-> "checkout", ok |-> success]>>)
        /\ fs' = IF success THEN [fs EXCEPT ![cur].git = AfterCheckout(@, branch)] ELSE fs
        /\ pc' = "reset"
        /\ UNCHANGED <<failed, outcome, i>>
    /\ UNCHANGED <<args, prior, deadline, fs0, repos, branch, sha, ok, skipped, exit, raised,
                   fnArg, fnRes>>

\* main, lines 246-251, the branch is a name: it is checked out, which may fail
Checkout ==
    /\ pc = "checkout"
    /\ branch # "HEAD"
    /\ \E success \in BOOLEAN :
        /\ calls' = Log(<<[cmd |-> "checkout", ok |-> success]>>)
        /\ IF success
           THEN /\ fs' = [fs EXCEPT ![cur].git = AfterCheckout(@, branch)]
                /\ pc' = "reset"
                /\ UNCHANGED <<failed, outcome, i>>
           ELSE /\ failed' = failed + 1
                /\ outcome' = Append(outcome, "Failed-Checkout")
                /\ Continue
                /\ UNCHANGED fs
    /\ UNCHANGED <<args, prior, deadline, fs0, repos, branch, sha, ok, skipped, exit, raised,
                   fnArg, fnRes>>

\* main, line 247, the branch is HEAD: no checkout
NoCheckout ==
    /\ pc = "checkout"
    /\ branch = "HEAD"
    /\ pc' = "reset"
    /\ UNCHANGED <<args, prior, deadline, fs, fs0, repos, i, branch, sha, ok, skipped, failed,
                   outcome, calls, exit, raised, fnArg, fnRes>>

\* main, lines 253-258: the hard reset, which may fail
HardReset ==
    /\ pc = "reset"
    /\ \E success \in BOOLEAN :
        /\ calls' = Log(<<[cmd |-> "reset", ok |-> success]>>)
        /\ IF success
           THEN /\ fs' = [fs EXCEPT ![cur].git = AfterHardReset(@, sha)]
                /\ ok' = ok + 1
                /\ outcome' = Append(outcome, "Reset")
                /\ UNCHANGED failed
           ELSE /\ failed' = failed + 1
                /\ outcome' = Append(outcome, "Failed-Reset")
                /\ UNCHANGED <<fs, ok>>
        /\ Continue
    /\ UNCHANGED <<args, prior, deadline, fs0, repos, branch, sha, skipped, exit, raised,
                   fnArg, fnRes>>

\* main, lines 260-262, with the exit code not looking at failed
SummaryIgnoresFailed ==
    /\ pc = "summary"
    /\ pc' = "done"
    /\ exit' = 0
    /\ UNCHANGED <<args, prior, deadline, fs, fs0, repos, i, branch, sha, ok, skipped, failed,
                   outcome, calls, raised, fnArg, fnRes>>

\* main, lines 260-262
Summary ==
    /\ pc = "summary"
    /\ pc' = "done"
    /\ exit' = IF failed = 0 THEN 0 ELSE 1
    /\ UNCHANGED <<args, prior, deadline, fs, fs0, repos, i, branch, sha, ok, skipped, failed,
                   outcome, calls, raised, fnArg, fnRes>>

Next ==
    \/ EnsureGit
    \/ RootNotDir
    \/ RootIsDir
    \/ ResolveDeadline
    \/ Enumerate
    \/ DirtyGuard
    \/ Lookup
    \/ Report
    \/ Checkout
    \/ NoCheckout
    \/ HardReset
    \/ Summary

Spec == Init /\ [][Next]_vars

(***************************************************************************)
(* detect_branch applied on its own to every shape of repository.          *)
(***************************************************************************)
OriginHeads == {NoRef, <<"origin", "main">>, <<"origin", "dev">>, <<"upstream", "master">>}

BranchRepos ==
    { [dirty |-> FALSE, untracked |-> FALSE, head |-> h, originHead |-> o,
       logs |-> [b \in BranchNames |-> IF b \in ex THEN <<T2310>> ELSE <<>>],
       detachedLog |-> IF h = Detached THEN <<T2310>> ELSE <<>>] :
        h \in BranchNames \cup {Detached}, o \in OriginHeads, ex \in SUBSET BranchNames }

Idle ==
    /\ git_on_path = TRUE /\ root_is_dir = TRUE
    /\ date_str = DateMDY /\ grace = 5 /\ dry_run = FALSE /\ force = FALSE
    /\ deadline = NoDeadline
    /\ fs = <<>> /\ fs0 = <<>> /\ repos = <<>>
    /\ i = 0
    /\ branch = "" /\ sha = None
    /\ ok = 0 /\ skipped = 0 /\ failed = 0
    /\ outcome = <<>>
    /\ calls = <<>>
    /\ exit = -1
    /\ raised = "none"
    /\ prior = FirstRun

InitBranch ==
    /\ pc = "fn"
    /\ fnArg \in BranchRepos
    /\ fnRes = ""
    /\ Idle

ApplyDetectBranch ==
    /\ pc = "fn"
    /\ pc' = "fnDone"
    /\ fnRes' = DetectBranch(fnArg)
    /\ UNCHANGED <<args, prior, deadline, fs, fs0, repos, i, branch, sha, ok, skipped, failed,
                   outcome, calls, exit, raised, fnArg>>

NextBranch == ApplyDetectBranch

SpecBranch == InitBranch /\ [][NextBranch]_vars

(***************************************************************************)
(* commit_before applied on its own to every history within the bound.     *)
(***************************************************************************)
CommitTimes == {T2310, T0004 - 1, T0004, T0010}

Histories == UNION { [1..n -> CommitTimes] : n \in 0..MaxLog }

InitCommit ==
    /\ pc = "fn"
    /\ \E log \in Histories, b \in {"main", "dev", "HEAD"}, g \in GraceValues :
        fnArg = [repo |-> [dirty |-> FALSE, untracked |-> FALSE, head |-> "main", originHead |-> NoRef,
                           logs |-> [NoLogs EXCEPT !["main"] = log],
                           detachedLog |-> <<>>],
                 branch |-> b,
                 deadline |-> ParseDateCentral(DateMDY, g).value]
    /\ fnRes = None
    /\ Idle

ApplyCommitBefore ==
    /\ pc = "fn"
    /\ pc' = "fnDone"
    /\ fnRes' = CommitBefore(fnArg.repo, fnArg.branch, fnArg.deadline)
    /\ UNCHANGED <<args, prior, deadline, fs, fs0, repos, i, branch, sha, ok, skipped, failed,
                   outcome, calls, exit, raised, fnArg>>

NextCommit == ApplyCommitBefore

SpecCommit == InitCommit /\ [][NextCommit]_vars

(***************************************************************************)
(* Properties of the cutoff lookup (SpecCommit).                           *)
(***************************************************************************)
\* the history commit_before was asked about, and the deadline instant
AskedHistory == History(fnArg.repo, fnArg.branch)
AskedInstant == Instant(fnArg.deadline)

NonDecreasing(h) == \A k \in 1..(Len(h) - 1) : h[k] <= h[k + 1]

\* C2: commit_before never returns a commit whose committer instant is at or after
\* the deadline instant; a commit made in the very second of the cutoff is excluded.
C2_CutoffExclusive ==
    (pc = "fnDone" /\ fnRes # None) => AskedHistory[fnRes] < AskedInstant

\* C3: on a history whose committer instants do not decrease, commit_before returns
\* the most recent commit strictly before the deadline, and None exactly when no
\* commit is strictly before it.
C3_LatestStrictlyBefore ==
    (pc = "fnDone" /\ NonDecreasing(AskedHistory)) =>
        LET q == {k \in 1..Len(AskedHistory) : AskedHistory[k] < AskedInstant}
        IN  IF q = {} THEN fnRes = None
            ELSE /\ fnRes \in q
                 /\ \A k \in q : AskedHistory[k] <= AskedHistory[fnRes]

(***************************************************************************)
(* Properties of the branch selector (SpecBranch).                         *)
(***************************************************************************)
Exists(r, b) == r.logs[b] # <<>>

MutatingCommands == {"checkout", "reset"}

\* the positions in the call log of entry k that hold a checkout or a reset
Mutations(k) == {n \in 1..Len(calls[k]) : calls[k][n].cmd \in MutatingCommands}

\* how many of the outcomes so far are in the set
Count(set) == Cardinality({n \in 1..Len(outcome) : outcome[n] \in set})

Failures == {"Failed-Checkout", "Failed-Reset"}

Outcomes ==
    {"Reset", "Skipped-Dirty", "Skipped-NoQualifyingCommit", "Skipped-DryRun"} \cup Failures

\* the date is accepted by parse_date_central
DateAccepted == ParseDateCentral(date_str, grace).raised = "none"

\* C1: a repository whose working tree has uncommitted modifications gets no
\* checkout and no hard reset in a run without force.
C1_DirtyNeverMutated ==
    \A pos \in 1..Len(repos) :
        (TreeDirty(fs0[repos[pos]].git) /\ ~force) => Mutations(repos[pos]) = {}

\* C5: a repository changes only when a checkout or a hard reset has been run on it,
\* and a repository whose outcome is Skipped-NoQualifyingCommit or Skipped-DryRun
\* is as it was found and has had neither a checkout nor a hard reset issued on it.
C5_OnlyCheckoutAndResetMutate ==
    /\ \A k \in 1..Len(fs) :
        fs[k] # fs0[k] => Mutations(k) # {}
    /\ \A pos \in 1..Len(outcome) :
        outcome[pos] \in {"Skipped-NoQualifyingCommit", "Skipped-DryRun"} =>
            /\ fs[repos[pos]] = fs0[repos[pos]]
            /\ Mutations(repos[pos]) = {}

\* a finished run that left one repository for want of a commit and one as a dry run
C5_Witness ==
    /\ pc = "done"
    /\ outcome = <<"Skipped-NoQualifyingCommit", "Skipped-DryRun">>
    /\ \E n \in 1..Len(calls[repos[2]]) : calls[repos[2]][n].cmd = "show"

\* C6 as claimed: a dry-run repository is tallied as skipped, and succeeded counts
\* only the repositories that were reset.
C6_DryRunTalliedSkipped ==
    /\ skipped = Count({"Skipped-Dirty", "Skipped-NoQualifyingCommit", "Skipped-DryRun"})
    /\ ok = Count({"Reset"})

\* C6 as amended: every outcome is one of the six, and the totals are
\* ok = Reset + Skipped-DryRun, skipped = Skipped-Dirty + Skipped-NoQualifyingCommit,
\* failed = Failed-Checkout + Failed-Reset; a dry run resets nothing.
C6_DryRunTalliedOk ==
    /\ \A n \in 1..Len(outcome) : outcome[n] \in Outcomes
    /\ ok = Count({"Reset", "Skipped-DryRun"})
    /\ skipped = Count({"Skipped-Dirty", "Skipped-NoQualifyingCommit"})
    /\ failed = Count(Failures)
    /\ dry_run => Count({"Reset"}) = 0
    /\ ~dry_run => Count({"Skipped-DryRun"}) = 0

\* a finished dry run with a repository that had a commit before the deadline
C6_Witness ==
    /\ pc = "done" /\ dry_run
    /\ Count({"Skipped-DryRun"}) >= 1
    /\ ok >= 1

\* C7 as claimed: in every run (that finds git) the exit code is 0 exactly when no
\* repository failed.
C7_ExitZeroIffNoFailure ==
    (pc = "done" /\ git_on_path) => (exit = 0 <=> Count(Failures) = 0)

\* C7 as amended: in every run that finds git, whose root is a directory and whose
\* date is accepted, the exit code is 0 when no repository failed and 1 otherwise; a run that ends
\* before the loop exits non-zero with no outcome at all.
C7_ExitCode ==
    pc = "done" =>
        IF git_on_path /\ root_is_dir /\ DateAccepted
        THEN exit = (IF Count(Failures) = 0 THEN 0 ELSE 1)
        ELSE exit \in {1, 2} /\ outcome = <<>>

\* a finished run with a reset and a failure
C7_Witness ==
    /\ pc = "done" /\ exit = 1
    /\ Count({"Reset"}) >= 1
    /\ Count(Failures) = 1

\* C8 as claimed: a root that does not exist, or holds no repository, ends the run
\* with exit code 0 and all counters at zero.
C8_MissingOrEmptyRootSucceeds ==
    (pc = "done" /\ git_on_path /\ DateAccepted /\ (~root_is_dir \/ repos = <<>>)) =>
        exit = 0 /\ ok = 0 /\ skipped = 0 /\ failed = 0

NothingTouched ==
    /\ ok = 0 /\ skipped = 0 /\ failed = 0
    /\ outcome = <<>>
    /\ fs = fs0
    /\ \A k \in 1..Len(calls) : calls[k] = <<>>

\* C8 as amended: a root that holds no repository ends the run with exit code 0,
\* all counters at zero and nothing touched; a root that is not a directory ends
\* it with exit code 2, before anything is listed.
C8_EmptyRootSucceeds ==
    pc = "done" =>
        /\ (git_on_path /\ root_is_dir /\ DateAccepted /\ repos = <<>>) =>
                (exit = 0 /\ NothingTouched)
        /\ (git_on_path /\ ~root_is_dir) => (exit = 2 /\ NothingTouched /\ fs = <<>>)

\* a finished run over a root that holds entries, none of them a repository
C8_Witness ==
    /\ pc = "done" /\ root_is_dir
    /\ Len(fs) >= 1 /\ repos = <<>>
    /\ exit = 0

\* C9: in a run that finds git, over a directory, with an accepted date, nothing ends the batch
\* early: each repository gets one outcome, the three counters add up to the
\* outcomes given, a finished run has given one to every repository, and no
\* repository sees more than one checkout or more than one hard reset.
C9_EveryRepositoryGetsOneOutcome ==
    (git_on_path /\ root_is_dir /\ DateAccepted) =>
        /\ raised = "none"
        /\ Len(outcome) <= Len(repos)
        /\ ok + skipped + failed = Len(outcome)
        /\ pc = "done" => (Len(outcome) = Len(repos) /\ exit \in {0, 1})
        /\ pc \in {"dirty", "lookup", "report", "checkout", "reset"} =>
                Len(outcome) = i - 1
        /\ pc \in {"dirty", "lookup", "report", "checkout", "reset"} => i \in 1..Len(repos)
        /\ \A k \in 1..Len(calls) : \A c \in MutatingCommands :
                Cardinality({n \in 1..Len(calls[k]) : calls[k][n].cmd = c}) <= 1

\* a finished run whose first repository failed and whose second was reset
C9_Witness ==
    /\ pc = "done"
    /\ Len(outcome) >= 2
    /\ outcome[1] \in Failures
    /\ outcome[2] = "Reset"

\* the date text is in neither accepted form
Malformed == ParseDateCentral(date_str, grace).raised = "SystemExit"

\* C10: a date in neither form ends the run before the root directory is listed:
\* no git command is run on any repository and no outcome is produced; and in any
\* run the deadline is resolved before the listing.
C10_MalformedDateTouchesNothing ==
    /\ Malformed =>
        /\ pc \in {"start", "root", "parse", "done"}
        /\ NothingTouched /\ fs = <<>> /\ repos = <<>>
        /\ pc = "done" => exit # 0
    /\ pc \in {"dirty", "lookup", "report", "checkout", "reset", "summary"} =>
        deadline # NoDeadline

\* the run over a directory ended by the malformed date
C10_Witness ==
    /\ pc = "done" /\ root_is_dir
    /\ Malformed /\ raised = "SystemExit"
    /\ exit = 1

(***************************************************************************)
(* Order of the mutation steps, and the dirty guard as the code has it     *)
(* (Spec).                                                                 *)
(***************************************************************************)
\* the positions in the call log of entry k that hold the command
CallsOf(k, c) == {n \in 1..Len(calls[k]) : calls[k][n].cmd = c}

\* the branch detect_branch resolved for entry k: nothing changes a repository
\* before its branch is resolved
ResolvedBranch(k) == DetectBranch(fs0[k].git)

\* the outcome of the repository at position pos of repos, "" while it has none
OutcomeAt(pos) == IF pos <= Len(outcome) THEN outcome[pos] ELSE ""

\* C13: per repository, a checkout is attempted at most once and only for a branch
\* other than HEAD; the hard reset is issued at most once and only after that
\* checkout succeeded, or with no checkout at all when the branch is HEAD; a failed
\* checkout gives Failed-Checkout and no reset, a failed reset gives Failed-Reset,
\* a successful reset gives Reset.
C13_MutationStepsOrdered ==
    \A pos \in 1..Len(repos) :
        LET k  == repos[pos]
            co == CallsOf(k, "checkout")
            rs == CallsOf(k, "reset")
        IN  /\ Cardinality(co) <= 1 /\ Cardinality(rs) <= 1
            /\ co # {} => ResolvedBranch(k) # "HEAD"
            /\ \A n \in rs :
                IF ResolvedBranch(k) = "HEAD" THEN co = {}
                ELSE \E m \in co : m < n /\ calls[k][m].ok
            /\ \A m \in co : ~calls[k][m].ok =>
                    (rs = {} /\ OutcomeAt(pos) = "Failed-Checkout")
            /\ \A n \in rs :
                    OutcomeAt(pos) = (IF calls[k][n].ok THEN "Reset" ELSE "Failed-Reset")
            /\ OutcomeAt(pos) = "Failed-Checkout" => \E m \in co : ~calls[k][m].ok
            /\ OutcomeAt(pos) \in {"Reset", "Failed-Reset"} => rs # {}

\* a finished run with a failed checkout, and a reset that followed a checkout
C13_Witness ==
    /\ pc = "done"
    /\ \E pos \in 1..Len(outcome) : outcome[pos] = "Failed-Checkout"
    /\ \E pos \in 1..Len(outcome) :
        /\ outcome[pos] = "Reset"
        /\ CallsOf(repos[pos], "checkout") # {}

\* whether the status query of entry k succeeded; it is the first command run on it
StatusOk(k) == calls[k][1].ok

\* C14: is_dirty is true only when the status query succeeded and listed a change;
\* a repository whose status query failed is never Skipped-Dirty and goes on to the
\* branch and commit queries; a repository is Skipped-Dirty exactly when the query
\* succeeded on a modified tree without force; so without force a hard reset is
\* issued only where the status query reported no change or failed.
C14_FailedStatusIsNotDirty ==
    \A pos \in 1..Len(repos) :
        LET k == repos[pos]
        IN  calls[k] # <<>> =>
            /\ calls[k][1].cmd = "status"
            /\ OutcomeAt(pos) = "Skipped-Dirty" <=>
                    (StatusOk(k) /\ TreeDirty(fs0[k].git) /\ ~force)
            /\ OutcomeAt(pos) = "Skipped-Dirty" => Len(calls[k]) = 1
            /\ (~StatusOk(k) /\ pos <= Len(outcome)) =>
                    (CallsOf(k, "rev-parse") # {} /\ CallsOf(k, "rev-list") # {})
            /\ (CallsOf(k, "reset") # {} /\ ~force) =>
                    (~StatusOk(k) \/ ~TreeDirty(fs0[k].git))

\* a modified repository whose status query failed was reset without force
C14_Witness ==
    /\ ~force
    /\ \E pos \in 1..Len(outcome) :
        /\ outcome[pos] = "Reset"
        /\ TreeDirty(fs0[repos[pos]].git)
        /\ ~StatusOk(repos[pos])

(***************************************************************************)
(* parse_date_central applied on its own to dates around the daylight-     *)
(* saving transitions of 2025 (March 9 and November 2) and away from them. *)
(***************************************************************************)
\* the MM/DD/YYYY text of a date of 2025
DateText(m, d) ==
    <<Digits[(m \div 10) + 1], Digits[(m % 10) + 1], "/",
      Digits[(d \div 10) + 1], Digits[(d % 10) + 1], "/", "2", "0", "2", "5">>

DeadlineMonths == {3, 9, 11}
DeadlineDays == 1..12

\* --grace values up to a little over three hours
DeadlineGraces == {0, 5, 60, 125, 185}

InitDeadline ==
    /\ pc = "fn"
    /\ \E m \in DeadlineMonths, d \in DeadlineDays, g \in DeadlineGraces :
        fnArg = [month |-> m, day |-> d, date_str |-> DateText(m, d), grace |-> g]
    /\ fnRes = NoDeadline
    /\ Idle

ApplyParseDateCentral ==
    /\ pc = "fn"
    /\ pc' = "fnDone"
    /\ fnRes' = ParseDateCentral(fnArg.date_str, fnArg.grace)
    /\ UNCHANGED <<args, prior, deadline, fs, fs0, repos, i, branch, sha, ok, skipped, failed,
                   outcome, calls, exit, raised, fnArg>>

NextDeadline == ApplyParseDateCentral

SpecDeadline == InitDeadline /\ [][NextDeadline]_vars

\* the instant of 23:59:00 local time on the date asked about; 23:59 is never in a
\* gap or repeated, so its offset is not in doubt
AskedBaseInstant == Instant(DateTime(2025, fnArg.month, fnArg.day, 23, 59))

\* C12: the deadline is the instant of 23:59:00 local time on the date plus exactly
\* grace minutes of elapsed time, also when a daylight-saving transition lies
\* between 23:59 and 23:59 plus grace.
C12_GraceIsElapsedTime ==
    (pc = "fnDone" /\ fnRes.raised = "none") =>
        Instant(fnRes.value) = AskedBaseInstant + 60 * fnArg.grace


(***************************************************************************)
(* The batch driver run a second time over the root the first run left,    *)
(* with the same --dir, --date and --grace, not as a dry run.              *)
(***************************************************************************)
\* HEAD on a branch without commits, next to a main with commits
OnUnborn ==
    [head |-> "dev", originHead |-> NoRef, detachedLog |-> <<>>,
     logs |-> [NoLogs EXCEPT !["main"] = <<T2310, T0010>>]]

\* the repositories of the root: every shape, with or without modified tracked
\* files, with or without untracked files
TwiceRepos ==
    { [WithTree(sh, d) EXCEPT !.untracked = u] :
        sh \in {OnMain, OnDev, DetachedBare, DetachedWithOrigin, OnUnborn},
        d \in BOOLEAN, u \in BOOLEAN }

InitTwice ==
    /\ pc = "start"
    /\ git_on_path = TRUE /\ root_is_dir = TRUE
    /\ date_str = DateMDY /\ grace = 5 /\ dry_run = FALSE
    /\ force \in BOOLEAN
    /\ deadline = NoDeadline
    /\ fs = <<>> /\ fs0 = <<>> /\ repos = <<>>
    /\ i = 0
    /\ branch = "" /\ sha = None
    /\ ok = 0 /\ skipped = 0 /\ failed = 0
    /\ outcome = <<>>
    /\ calls = <<>>
    /\ exit = -1
    /\ raised = "none"
    /\ fnArg = <<>> /\ fnRes = <<>>
    /\ prior = FirstRun

\* main, lines 207-215, first run: the root holds one repository
EnumerateOne ==
    /\ pc = "enumerate"
    /\ prior.run = 1
    /\ \E r \in TwiceRepos :
        /\ fs' = <<[kind |-> "repo", git |-> r]>>
        /\ fs0' = fs'
        /\ repos' = SortedRepos(fs', 1)
        /\ calls' = <<<<>>>>
        /\ pc' = "dirty" /\ i' = 1
    /\ UNCHANGED <<args, prior, deadline, branch, sha, ok, skipped, failed, outcome, exit,
                   raised, fnArg, fnRes>>

\* main, lines 207-215, second run: the root is listed as the first run left it
EnumerateAgain ==
    /\ pc = "enumerate"
    /\ prior.run = 2
    /\ fs0' = fs
    /\ repos' = SortedRepos(fs, 1)
    /\ calls' = [k \in 1..Len(fs) |-> <<>>]
    /\ pc' = "dirty" /\ i' = 1
    /\ UNCHANGED <<args, prior, fs, deadline, branch, sha, ok, skipped, failed, outcome,
                   exit, raised, fnArg, fnRes>>

\* the script is started again once the first run has ended, with or without
\* --force; what the first run did is kept for comparison
Rerun ==
    /\ pc = "done"
    /\ prior.run = 1
    /\ prior' = [run |-> 2, force |-> force, outcome |-> outcome, branch |-> branch,
                 sha |-> sha, calls |-> calls, fs |-> fs]
    /\ force' \in BOOLEAN
    /\ pc' = "start"
    /\ deadline' = NoDeadline
    /\ repos' = <<>> /\ i' = 0
    /\ branch' = "" /\ sha' = None
    /\ ok' = 0 /\ skipped' = 0 /\ failed' = 0
    /\ outcome' = <<>> /\ calls' = <<>>
    /\ exit' = -1
    /\ UNCHANGED <<git_on_path, root_is_dir, date_str, grace, dry_run, fs, fs0, raised,
                   fnArg, fnRes>>

NextTwice ==
    \/ EnsureGit
    \/ RootIsDir
    \/ ResolveDeadline
    \/ EnumerateOne
    \/ EnumerateAgain
    \/ DirtyGuard
    \/ Lookup
    \/ Report
    \/ Checkout
    \/ NoCheckout
    \/ HardReset
    \/ Summary
    \/ Rerun

SpecTwice == InitTwice /\ [][NextTwice]_vars

\* the status, checkout and reset commands in a log of calls all succeeded
CommandsSucceeded(log) ==
    \A n \in 1..Len(log) : log[n].cmd \in {"status", "checkout", "reset"} => log[n].ok

\* a second run has ended after a first run that reset the repository
SecondRunAfterReset ==
    /\ pc = "done"
    /\ prior.run = 2
    /\ prior.outcome = <<"Reset">>

\* C11: when restore runs twice in sequence, not as a dry run and with every git
\* command of both runs succeeding, a first outcome Reset is followed by a second
\* outcome Reset
C11_SecondRunResets ==
    (SecondRunAfterReset /\ CommandsSucceeded(prior.calls[1]) /\ CommandsSucceeded(calls[1]))
        => outcome = <<"Reset">>

\* what does hold of the second run: it resolves the same branch and the same commit
\* and leaves the repository as the first run left it; it is a Reset when its dirty
\* guard lets it through and its commands succeed, and Skipped-Dirty otherwise, which
\* happens only over untracked files
SecondRunSameSelection ==
    SecondRunAfterReset =>
        LET r == prior.fs[1].git
            through == force \/ ~IsDirty(r, StatusOk(1))
        IN  /\ ~r.dirty
            /\ through => (branch = prior.branch /\ sha = prior.sha)
            /\ (through /\ CommandsSucceeded(calls[1])) => outcome = <<"Reset">>
            /\ ~through => (outcome = <<"Skipped-Dirty">> /\ r.untracked)
            /\ fs = prior.fs


(***************************************************************************)
(* cleanup_keep_dir.py: clean_student_dir applied on its own to a student  *)
(* directory.  A path is the sequence of its parts below the student       *)
(* directory; a tree is the set of the paths that exist; an entry named    *)
(* "f" is a file and every other entry is a directory.                     *)
(***************************************************************************)
MaxKeepLen == 3

DirNames == {"a", "b"}
FileName == "f"
EntryNames == DirNames \cup {FileName}

\* the student directories: at most two levels below the student directory
TreePaths == {<<x>> : x \in EntryNames} \cup {<<d, x>> : d \in DirNames, x \in EntryNames}
Trees == {t \in SUBSET TreePaths : \A q \in t : Len(q) = 2 => <<q[1]>> \in t}

IsPrefix(a, b) == Len(a) <= Len(b) /\ SubSeq(b, 1, Len(a)) = a

\* Path.is_dir() of a path made of entry names
IsDir(tree, q) == q = <<>> \/ (q \in tree /\ q[Len(q)] # FileName)

\* Path(text): pathlib drops the "." parts and keeps the ".." parts
RECURSIVE Parts(_)
Parts(raw) ==
    IF raw = <<>> THEN <<>>
    ELSE (IF Head(raw) = "." THEN <<>> ELSE <<Head(raw)>>) \o Parts(Tail(raw))

\* where the operating system finds the path student_dir / parts, part by part from
\* `at`: ".." is the parent of a directory, a name is an entry of a directory
RECURSIVE Walk(_, _, _)
Walk(tree, parts, at) ==
    IF parts = <<>> THEN [found |-> TRUE, path |-> at]
    ELSE IF ~IsDir(tree, at) THEN [found |-> FALSE]
    ELSE IF Head(parts) = ".."
         THEN Walk(tree, Tail(parts), SubSeq(at, 1, Len(at) - 1))
         ELSE IF Append(at, Head(parts)) \in tree
              THEN Walk(tree, Tail(parts), Append(at, Head(parts)))
              ELSE [found |-> FALSE]

\* Path.exists() of student_dir / parts
PathExists(tree, parts) == Walk(tree, parts, <<>>).found

\* is_relative_to(descendant, ancestor): a comparison of the parts as written
is_relative_to(descendant, ancestor) == IsPrefix(ancestor, descendant)

\* root.iterdir()
IterDir(tree, root) == {q \in tree : Len(q) = Len(root) + 1 /\ IsPrefix(root, q)}

\* remove_path(target, dry_run): a directory goes with all it holds
remove_path(tree, target, dry) ==
    IF dry THEN tree ELSE {q \in tree : ~IsPrefix(target, q)}

\* prune_tree(root, keep, dry_run); PruneEntries is its loop over the entries listed
RECURSIVE prune_tree(_, _, _, _), PruneEntries(_, _, _, _)
PruneEntries(tree, entries, keep, dry) ==
    IF entries = {} THEN tree
    ELSE LET entry == CHOOSE e \in entries : TRUE
             after ==
                IF entry = keep \/ is_relative_to(keep, entry)
                THEN IF IsDir(tree, entry) /\ entry # keep
                     THEN prune_tree(tree, entry, keep, dry)
                     ELSE tree
                ELSE remove_path(tree, entry, dry)
         IN  PruneEntries(after, entries \ {entry}, keep, dry)

prune_tree(tree, root, keep, dry) ==
    PruneEntries(tree, IterDir(tree, root), keep, dry)

\* the loop of clean_student_dir over the entries of the student directory
RECURSIVE CleanEntries(_, _, _, _)
CleanEntries(tree, entries, keep_path, dry) ==
    IF entries = {} THEN tree
    ELSE LET entry == CHOOSE e \in entries : TRUE
             after ==
                IF entry = keep_path THEN tree
                ELSE IF is_relative_to(keep_path, entry)
                     THEN prune_tree(tree, entry, keep_path, dry)
                     ELSE remove_path(tree, entry, dry)
         IN  CleanEntries(after, entries \ {entry}, keep_path, dry)

\* clean_student_dir(student_dir, keep_relative, dry_run)
clean_student_dir(tree, keep_relative, dry) ==
    LET keep_path == Parts(keep_relative)
    IN  IF ~PathExists(tree, keep_path) THEN tree
        ELSE CleanEntries(tree, IterDir(tree, <<>>), keep_path, dry)

\* the keep_dir arguments: names, "." and "..", never leaving the student directory
KeepParts == EntryNames \cup {".", ".."}
RECURSIVE StaysInside(_, _)
StaysInside(raw, depth) ==
    IF raw = <<>> THEN TRUE
    ELSE IF Head(raw) = "." THEN StaysInside(Tail(raw), depth)
    ELSE IF Head(raw) = ".." THEN depth > 0 /\ StaysInside(Tail(raw), depth - 1)
    ELSE StaysInside(Tail(raw), depth + 1)
KeepDirs ==
    {raw \in UNION {[1..n -> KeepParts] : n \in 1..MaxKeepLen} : StaysInside(raw, 0)}

InitClean ==
    /\ pc = "fn"
    /\ \E t \in Trees, k \in KeepDirs, d \in BOOLEAN :
        fnArg = [tree |-> t, keep_dir |-> k, dry_run |-> d]
    /\ fnRes = {}
    /\ Idle

ApplyCleanStudentDir ==
    /\ pc = "fn"
    /\ pc' = "fnDone"
    /\ fnRes' = clean_student_dir(fnArg.tree, fnArg.keep_dir, fnArg.dry_run)
    /\ UNCHANGED <<args, prior, deadline, fs, fs0, repos, i, branch, sha, ok, skipped,
                   failed, outcome, calls, exit, raised, fnArg>>

NextClean == ApplyCleanStudentDir

SpecClean == InitClean /\ [][NextClean]_vars

\* the entry the keep path names
KeepTarget == Walk(fnArg.tree, Parts(fnArg.keep_dir), <<>>)

\* the keep path, its ancestors and everything below it
Kept(target) == {q \in fnArg.tree : IsPrefix(q, target) \/ IsPrefix(target, q)}

\* C15: after a clean that is not a dry run, with a keep path that exists below the
\* student directory, exactly the keep path, its ancestors and everything below it are
\* left; with a missing keep path or a dry run nothing is removed
C15_KeepPathPreserved ==
    pc = "fnDone" =>
        IF KeepTarget.found /\ ~fnArg.dry_run
        THEN KeepTarget.path # <<>> => fnRes = Kept(KeepTarget.path)
        ELSE fnRes = fnArg.tree

\* the same, for the keep paths written without ".."
PlainKeepPathPreserved ==
    (pc = "fnDone" /\ \A n \in 1..Len(fnArg.keep_dir) : fnArg.keep_dir[n] # "..") =>
        IF KeepTarget.found /\ ~fnArg.dry_run
        THEN KeepTarget.path # <<>> => fnRes = Kept(KeepTarget.path)
        ELSE fnRes = fnArg.tree

====
